---- MODULE Spec2Model ----
(***************************************************************************)
(* Model of analyze_features.py: load feature_list.json, build the set of  *)
(* passing tests, filter the remaining features, rank them and print the   *)
(* first ten.                                                              *)
(*                                                                         *)
(* JSON values are modelled by tags, since a field of a record may hold a  *)
(* value of any JSON type or be absent:                                    *)
(*   passes       "absent" | "True" | "False" | "None" | "yes"             *)
(*   complexity   "absent" | a string                                      *)
(*   description  [kind: "absent" | "null" | "str", s: tuple of chars]     *)
(*   dependencies [kind: "absent" | "num" | "list", l: tuple of numbers]   *)
(* A record that is not a JSON object has isdict = FALSE.                  *)
(***************************************************************************)
EXTENDS Integers, Sequences, FiniteSets, TLC

VARIABLES pc, features, i, passing_tests, candidates, out

vars == <<pc, features, i, passing_tests, candidates, out>>

\* ------------------------------------------------------------------ bounds
MaxLen == 3

MaxSimple == 9

MaxMedium == 6

\* ------------------------------------------------------------- constants
\* candidates[:10]
TopN == 10

\* --------------------------------------------------------------- strings
UpperCase == <<"A","B","C","D","E","F","G","H","I","J","K","L","M",
               "N","O","P","Q","R","S","T","U","V","W","X","Y","Z">>

LowerCase == <<"a","b","c","d","e","f","g","h","i","j","k","l","m",
               "n","o","p","q","r","s","t","u","v","w","x","y","z">>

\* str.lower() on one character
LowerChar(c) ==
    IF \E k \in 1..26 : UpperCase[k] = c
    THEN LowerCase[CHOOSE k \in 1..26 : UpperCase[k] = c]
    ELSE c

\* variant: the description is searched without being lower-cased
LowerOmitted(s) == s

\* str.lower()
Lower(s) == [k \in 1..Len(s) |-> LowerChar(s[k])]

\* Python's  sub in s  for strings
Contains(sub, s) ==
    \E k \in 0..(Len(s) - Len(sub)) : SubSeq(s, k + 1, k + Len(sub)) = sub

db_keywords == << <<"d","a","t","a","b","a","s","e">>,
                  <<"p","o","s","t","g","r","e","s","q","l">> >>

frontend_keywords ==
    << <<"u","i">>,
       <<"p","a","g","e">>,
       <<"n","a","v","i","g","a","t","e">>,
       <<"b","u","t","t","o","n">>,
       <<"d","i","s","p","l","a","y">>,
       <<"v","i","e","w","e","r">>,
       <<"i","n","t","e","r","f","a","c","e">>,
       <<"l","a","y","o","u","t">>,
       <<"d","e","s","i","g","n">>,
       <<"r","e","s","p","o","n","s","i","v","e">>,
       <<"d","a","r","k"," ","m","o","d","e">>,
       <<"l","o","g","o","u","t">>,
       <<"s","e","t","t","i","n","g","s">>,
       <<"l","o","a","d","i","n","g">>,
       <<"e","r","r","o","r">>,
       <<"f","o","r","m">>,
       <<"i","n","p","u","t">>,
       <<"m","o","d","a","l">>,
       <<"d","i","a","l","o","g">> >>

\* ------------------------------------------------------------ dict.get
\* feature.get('passes', default)
GetPasses(feature, default) ==
    IF feature.passes = "absent" THEN default ELSE feature.passes

\* truth value of a passes value: True and non-empty strings are truthy,
\* False and None are falsy
Truthy(v) == v \in {"True", "yes"}

\* feature.get('description', '')
GetDescription(feature) ==
    IF feature.description.kind = "absent"
    THEN [kind |-> "str", s |-> <<>>]
    ELSE feature.description

\* feature.get('complexity'): None when absent
GetComplexity(feature) ==
    IF feature.complexity = "absent" THEN "None" ELSE feature.complexity

\* feature.get('complexity', '')
GetComplexityOrEmpty(feature) ==
    IF feature.complexity = "absent" THEN "" ELSE feature.complexity

\* feature.get('dependencies', [])
GetDependencies(feature) ==
    IF feature.dependencies.kind = "absent"
    THEN [kind |-> "list", l |-> <<>>]
    ELSE feature.dependencies

\* feature.get('category', '')
GetCategory(feature) ==
    IF feature.category = "absent" THEN "" ELSE feature.category

\* truth value of a dependencies value: a non-empty list or a non-zero number
DepsTruthy(deps) ==
    \/ deps.kind = "list" /\ deps.l # <<>>
    \/ deps.kind = "num"

\* ---------------------------------------------------------------- inputs
Str(t) == [kind |-> "str", s |-> t]

NoDescription == [kind |-> "absent", s |-> <<>>]

\* a description that is not a string (JSON null)
NullDescription == [kind |-> "null", s |-> <<>>]

List(t) == [kind |-> "list", l |-> t]

NoDependencies == [kind |-> "absent", l |-> <<>>]

\* a dependencies value that is a number instead of a list
NumDependencies == [kind |-> "num", l |-> <<>>]

DescUI == Str(<<"U","I">>)

DescLog == Str(<<"L","o","g">>)

DescPostgresUI == Str(<<"P","o","s","t","g","r","e","S","Q","L"," ","U","I">>)

DescDatabaseForm == Str(<<"D","a","t","a","B","a","s","e"," ","f","o","r","m">>)

PassesValues == {"absent", "True", "False", "None", "yes"}

DescriptionValues ==
    {NoDescription, NullDescription, DescUI, DescLog, DescPostgresUI, DescDatabaseForm}

ComplexityValues == {"absent", "simple", "medium", "complex", ""}

DependenciesValues ==
    {NoDependencies, NumDependencies, List(<<>>), List(<<2>>), List(<<1, 2>>), List(<<0>>)}

\* an element of the top-level array that is not an object
NonDict ==
    [isdict |-> FALSE, passes |-> "absent", description |-> NoDescription,
     complexity |-> "absent", dependencies |-> NoDependencies, category |-> "absent"]

AnyFeature ==
    [isdict : {TRUE}, passes : PassesValues, description : DescriptionValues,
     complexity : ComplexityValues, dependencies : DependenciesValues,
     category : {"absent"}]
    \cup {NonDict}

PassingFeature ==
    [isdict |-> TRUE, passes |-> "True", description |-> DescLog,
     complexity |-> "complex", dependencies |-> NoDependencies, category |-> "api"]

SimpleFeature ==
    [isdict |-> TRUE, passes |-> "False", description |-> DescUI,
     complexity |-> "simple", dependencies |-> List(<<>>), category |-> "UI"]

MediumFeature ==
    [isdict |-> TRUE, passes |-> "False", description |-> DescUI,
     complexity |-> "medium", dependencies |-> NoDependencies, category |-> "UI"]

CommonFeatures == {PassingFeature, SimpleFeature, MediumFeature}

\* an array of n common features with the one at position p replaced by r
SmallInput(n, p, r, base) == [k \in 1..n |-> IF k = p THEN r ELSE base[k]]

\* in an array of ns eligible simple and nm eligible medium features, is the
\* one at position k medium: the medium ones come first (pattern 1), last (2)
\* or at the even positions while both kinds last (3)
IsMediumAt(k, ns, nm, pattern) ==
    CASE pattern = 1 -> k <= nm
      [] pattern = 2 -> k > ns
      [] OTHER -> IF ns <= nm
                  THEN k > 2 * ns \/ k % 2 = 0
                  ELSE k <= 2 * nm /\ k % 2 = 0

LongInput(ns, nm, pattern) ==
    [k \in 1..(ns + nm) |->
        IF IsMediumAt(k, ns, nm, pattern) THEN MediumFeature ELSE SimpleFeature]

\* --------------------------------------------------------------- sorting
RECURSIVE SortedSet(_)
\* sorted(passing_tests)
SortedSet(S) ==
    IF S = {} THEN <<>>
    ELSE LET m == CHOOSE x \in S : \A y \in S : x <= y
         IN <<m>> \o SortedSet(S \ {m})

\* variant: the key is the test number alone
SortKeyTestNum(x) == <<0, x.test_num>>

\* key=lambda x: (x['complexity'] == 'medium', x['test_num'])
SortKey(x) == <<IF x.complexity = "medium" THEN 1 ELSE 0, x.test_num>>

\* tuple comparison of two keys
KeyLess(a, b) == a[1] < b[1] \/ (a[1] = b[1] /\ a[2] < b[2])

RECURSIVE InsertSorted(_, _)
\* x goes after every element whose key is not greater: the sort is stable
InsertSorted(x, s) ==
    IF s = <<>> THEN <<x>>
    ELSE IF KeyLess(SortKey(x), SortKey(Head(s)))
         THEN <<x>> \o s
         ELSE <<Head(s)>> \o InsertSorted(x, Tail(s))

RECURSIVE SortCandidates(_)
\* candidates.sort(key=...)
SortCandidates(s) ==
    IF s = <<>> THEN <<>>
    ELSE InsertSorted(s[Len(s)], SortCandidates(SubSeq(s, 1, Len(s) - 1)))

\* ---------------------------------------------------------------- output
NoBlock ==
    [rank |-> 0, test_num |-> 0, description |-> <<>>, complexity |-> "",
     category |-> "", dependencies |-> NoDependencies]

\* print("=== PASSING TESTS ==="); print(sorted(passing_tests)); print()
PassingSection(list) == [kind |-> "passing", list |-> list, block |-> NoBlock]

\* print("=== ELIGIBLE FEATURES ... ==="); print()
EligibleHeader == [kind |-> "eligible", list |-> <<>>, block |-> NoBlock]

\* cand['dependencies'] if cand['dependencies'] else 'None'
RenderDependencies(deps) ==
    IF DepsTruthy(deps) THEN deps ELSE [kind |-> "None", l |-> <<>>]

\* the five printed lines of one candidate
CandidateBlock(rank, cand) ==
    [kind |-> "block", list |-> <<>>,
     block |-> [rank |-> rank, test_num |-> cand.test_num,
                description |-> cand.description.s,
                complexity |-> cand.complexity, category |-> cand.category,
                dependencies |-> RenderDependencies(cand.dependencies)]]

\* ------------------------------------------------------------- filtering
\* 'database' in description or 'postgresql' in description
IsDatabase(description) ==
    \E k \in 1..Len(db_keywords) : Contains(db_keywords[k], description)

\* any(keyword in description_lower for keyword in frontend_keywords)
IsFrontend(description_lower) ==
    \E k \in 1..Len(frontend_keywords) : Contains(frontend_keywords[k], description_lower)

\* variant: any() in place of all()
AnyPassing(deps, passing) == \E k \in 1..Len(deps.l) : deps.l[k] \in passing

\* all(dep in passing_tests for dep in deps)
AllPassing(deps, passing) == \A k \in 1..Len(deps.l) : deps.l[k] \in passing

\* Filter 1: feature.get('passes', True) is truthy -> continue
Filter1Skips(feature) == Truthy(GetPasses(feature, "True"))

\* variant: only the complexity 'complex' is rejected
Filter4SkipsComplexOnly(feature) == GetComplexity(feature) = "complex"

\* Filter 4: feature.get('complexity') not in ['simple', 'medium'] -> continue
Filter4Skips(feature) == GetComplexity(feature) \notin {"simple", "medium"}

\* one iteration of the eligibility loop on a feature:
\* "skip" (continue), "append", or "error" (an exception ends the run)
FilterOutcome(feature, passing) ==
    IF Filter1Skips(feature) THEN "skip"
    ELSE IF GetDescription(feature).kind # "str" THEN "error"
    ELSE IF IsDatabase(Lower(GetDescription(feature).s)) THEN "skip"
    ELSE IF Filter4Skips(feature) THEN "skip"
    ELSE IF GetDependencies(feature).kind = "num" THEN "error"
    ELSE IF DepsTruthy(GetDependencies(feature))
            /\ ~AllPassing(GetDependencies(feature), passing) THEN "skip"
    ELSE IF ~IsFrontend(Lower(GetDescription(feature).s)) THEN "skip"
    ELSE "append"

\* the dict appended to candidates
Candidate(test_num, feature) ==
    [test_num |-> test_num,
     description |-> GetDescription(feature),
     complexity |-> GetComplexityOrEmpty(feature),
     dependencies |-> GetDependencies(feature),
     category |-> GetCategory(feature)]

\* variant: the slice is missing, every candidate is reported
TopCandidatesAll(cands) == cands

\* candidates[:10]
TopCandidates(cands) ==
    SubSeq(cands, 1, IF Len(cands) < TopN THEN Len(cands) ELSE TopN)

\* --------------------------------------------------------------- actions
Init ==
    /\ pc = "load"
    /\ features = <<>>
    /\ i = 0
    /\ passing_tests = {}
    /\ candidates = <<>>
    /\ out = <<>>

\* open('feature_list.json') and json.load: the file is missing or malformed
\* (the run ends with an exception), or it holds an array of features
Load ==
    /\ pc = "load"
    /\ \/ /\ pc' = "error"
          /\ features' = features
       \/ /\ \E n \in 0..MaxLen, p \in 1..MaxLen, r \in AnyFeature :
                \E base \in [1..n -> CommonFeatures] :
                   /\ p <= n \/ (n = 0 /\ p = 1)
                   /\ features' = SmallInput(n, p, r, base)
          /\ pc' = "pass1"
       \/ /\ \E ns \in 0..MaxSimple, nm \in 0..MaxMedium, pattern \in 1..3 :
                features' = LongInput(ns, nm, pattern)
          /\ pc' = "pass1"
    /\ UNCHANGED <<i, passing_tests, candidates, out>>

\* variant: the 0-based index is added instead of i + 1
BuildPassingZeroBased ==
    /\ pc = "pass1"
    /\ i < Len(features)
    /\ IF ~features[i + 1].isdict
       THEN /\ pc' = "error"
            /\ UNCHANGED <<i, passing_tests>>
       ELSE /\ passing_tests' =
                  IF Truthy(GetPasses(features[i + 1], "False"))
                  THEN passing_tests \cup {i}
                  ELSE passing_tests
            /\ i' = i + 1
            /\ pc' = pc
    /\ UNCHANGED <<features, candidates, out>>

\* one iteration of the first loop; .get on a feature that is no dict raises
BuildPassing ==
    /\ pc = "pass1"
    /\ i < Len(features)
    /\ IF ~features[i + 1].isdict
       THEN /\ pc' = "error"
            /\ UNCHANGED <<i, passing_tests>>
       ELSE /\ passing_tests' =
                  IF Truthy(GetPasses(features[i + 1], "False"))
                  THEN passing_tests \cup {i + 1}
                  ELSE passing_tests
            /\ i' = i + 1
            /\ pc' = pc
    /\ UNCHANGED <<features, candidates, out>>

\* the first loop is over: print the passing tests, start the second loop
EmitPassing ==
    /\ pc = "pass1"
    /\ i = Len(features)
    /\ out' = Append(out, PassingSection(SortedSet(passing_tests)))
    /\ candidates' = <<>>
    /\ i' = 0
    /\ pc' = "filter"
    /\ UNCHANGED <<features, passing_tests>>

\* variant: a single pass, the dependencies are looked up among the tests
\* seen so far
FilterSinglePass ==
    /\ pc = "filter"
    /\ i < Len(features)
    /\ LET outcome == FilterOutcome(features[i + 1],
                                    {k \in passing_tests : k <= i + 1})
       IN  /\ pc' = IF outcome = "error" THEN "error" ELSE pc
           /\ i' = IF outcome = "error" THEN i ELSE i + 1
           /\ candidates' =
                 IF outcome = "append"
                 THEN Append(candidates, Candidate(i + 1, features[i + 1]))
                 ELSE candidates
    /\ UNCHANGED <<features, passing_tests, out>>

\* one iteration of the eligibility loop
Filter ==
    /\ pc = "filter"
    /\ i < Len(features)
    /\ LET outcome == FilterOutcome(features[i + 1], passing_tests)
       IN  /\ pc' = IF outcome = "error" THEN "error" ELSE pc
           /\ i' = IF outcome = "error" THEN i ELSE i + 1
           /\ candidates' =
                 IF outcome = "append"
                 THEN Append(candidates, Candidate(i + 1, features[i + 1]))
                 ELSE candidates
    /\ UNCHANGED <<features, passing_tests, out>>

\* the eligibility loop is over: sort the candidates, print the header
Sort ==
    /\ pc = "filter"
    /\ i = Len(features)
    /\ candidates' = SortCandidates(candidates)
    /\ out' = Append(out, EligibleHeader)
    /\ i' = 0
    /\ pc' = "report"
    /\ UNCHANGED <<features, passing_tests>>

\* one iteration of the report loop: the block of candidate i + 1
Report ==
    /\ pc = "report"
    /\ i < Len(TopCandidates(candidates))
    /\ out' = Append(out, CandidateBlock(i + 1, TopCandidates(candidates)[i + 1]))
    /\ i' = i + 1
    /\ UNCHANGED <<pc, features, passing_tests, candidates>>

\* the report loop is over: the script ends
Finish ==
    /\ pc = "report"
    /\ i = Len(TopCandidates(candidates))
    /\ pc' = "done"
    /\ UNCHANGED <<features, i, passing_tests, candidates, out>>

Next ==
    \/ Load
    \/ BuildPassing
    \/ EmitPassing
    \/ Filter
    \/ Sort
    \/ Report
    \/ Finish

Spec == Init /\ [][Next]_vars

TypeOK ==
    /\ pc \in {"load", "pass1", "filter", "report", "done", "error"}
    /\ i \in 0..(MaxSimple + MaxMedium + MaxLen)
    /\ passing_tests \subseteq 1..Len(features)
    /\ Len(candidates) <= Len(features)

\* ---------------------------------------------------------------- claims
\* the first loop has run over every feature
PassDone == out # <<>> \/ (pc = "pass1" /\ i = Len(features))

\* the eligibility loop has decided on feature k
Decided(k) ==
    \/ pc = "filter" /\ k <= i
    \/ pc \in {"report", "done"}
    \/ pc = "error" /\ out # <<>> /\ k <= i

\* the eligibility loop has run over every feature, the sort has not started
FilterDone == pc = "filter" /\ i = Len(features)

\* the test numbers of the candidates
CandidateNums == {candidates[k].test_num : k \in 1..Len(candidates)}

\* the features whose passes field is present and truthy
PassingIds ==
    {k \in 1..Len(features) : features[k].passes \notin {"absent", "False", "None"}}

\* sub occurs in s when letter case is ignored (sub is lower-case)
SameLetter(c, low) ==
    c = low \/ \E n \in 1..26 : UpperCase[n] = c /\ LowerCase[n] = low

ContainsIgnoreCase(sub, s) ==
    \E k \in 0..(Len(s) - Len(sub)) :
       \A j \in 1..Len(sub) : SameLetter(s[k + j], sub[j])

MentionsDatabase(s) ==
    \/ ContainsIgnoreCase(<<"d","a","t","a","b","a","s","e">>, s)
    \/ ContainsIgnoreCase(<<"p","o","s","t","g","r","e","s","q","l">>, s)

MentionsFrontend(s) ==
    \E k \in 1..Len(frontend_keywords) : ContainsIgnoreCase(frontend_keywords[k], s)

\* the printed candidate blocks, in order
Blocks == SelectSeq(out, LAMBDA e : e.kind = "block")

\* simple before medium, test numbers strictly ascending within a tier
Ranked(c) ==
    \A a, b \in 1..Len(c) :
       a < b =>
          /\ ~(c[a].complexity = "medium" /\ c[b].complexity = "simple")
          /\ c[a].complexity = c[b].complexity => c[a].test_num < c[b].test_num

\* b holds the elements of a, each once
IsPermutation(a, b) ==
    /\ Len(a) = Len(b)
    /\ \A k \in 1..Len(a) :
          Cardinality({j \in 1..Len(a) : a[j] = a[k]})
             = Cardinality({j \in 1..Len(b) : b[j] = a[k]})

\* C1 as stated: after the first loop the PassingSet holds exactly the
\* positions of the records whose passes field equals true
C1_PassingSetEqualsTrue ==
    PassDone => passing_tests = {k \in 1..Len(features) : features[k].passes = "True"}

\* C1 amended: the PassingSet never holds a record whose passes field is
\* absent, false or null, and after the first loop it holds the position of
\* every record whose passes field is present and truthy (true or, say, a
\* non-empty string)
C1_PassingSetTruthy ==
    /\ \A k \in passing_tests :
          /\ k \in 1..Len(features)
          /\ features[k].passes \in {"True", "yes"}
    /\ PassDone =>
          \A k \in 1..Len(features) :
             features[k].passes \in {"True", "yes"} => k \in passing_tests

C1_Witness ==
    /\ PassDone
    /\ \E k \in passing_tests : features[k].passes = "yes"
    /\ \E k \in 1..Len(features) : features[k].passes = "False" /\ k \notin passing_tests
    /\ \E k \in passing_tests : features[k].passes = "True"

\* C2: the passes field of the original record of every candidate is present
\* and exactly false
C2_CandidatePassesFalse ==
    \A k \in 1..Len(candidates) : features[candidates[k].test_num].passes = "False"

\* C3: every dependency of a candidate is in the PassingSet and refers to a
\* passing record, and no decided record with a dependency outside the
\* PassingSet is a candidate
C3_DependenciesPassing ==
    /\ \A k \in 1..Len(candidates) :
          LET f == features[candidates[k].test_num]
          IN  /\ f.dependencies.kind \in {"absent", "list"}
              /\ candidates[k].dependencies.l = f.dependencies.l
              /\ \A d \in 1..Len(f.dependencies.l) :
                    /\ f.dependencies.l[d] \in passing_tests
                    /\ f.dependencies.l[d] \in PassingIds
    /\ \A k \in 1..Len(features) :
          (/\ Decided(k)
           /\ \E d \in 1..Len(features[k].dependencies.l) :
                 features[k].dependencies.l[d] \notin PassingIds)
          => k \notin CandidateNums

C3_Witness ==
    /\ pc = "done"
    /\ \E k \in 1..Len(candidates) : Len(candidates[k].dependencies.l) = 2

\* C4: when the eligibility loop ends the candidates are, in input order and
\* each once, exactly the records satisfying the five predicates (passes is
\* false; no database word; simple or medium; dependencies passing; a
\* frontend keyword)
C4_ExactlyTheEligible ==
    FilterDone =>
       LET Eligible(k) ==
              /\ features[k].passes = "False"
              /\ ~MentionsDatabase(features[k].description.s)
              /\ features[k].complexity \in {"simple", "medium"}
              /\ \A d \in 1..Len(features[k].dependencies.l) :
                    features[k].dependencies.l[d] \in passing_tests
              /\ MentionsFrontend(features[k].description.s)
       IN  /\ CandidateNums = {k \in 1..Len(features) : Eligible(k)}
           /\ \A a, b \in 1..Len(candidates) :
                 a < b => candidates[a].test_num < candidates[b].test_num

\* C5: the sort leaves a permutation of the filtered candidates in which
\* simple precedes medium and test numbers ascend strictly within a tier,
\* and the report works on that ranked sequence
C5_Ranked ==
    /\ [](pc \in {"report", "done"} => Ranked(candidates))
    /\ [][(pc = "filter" /\ pc' = "report")
             => Ranked(candidates') /\ IsPermutation(candidates, candidates')]_vars

C5_Witness ==
    /\ pc = "report"
    /\ \E a, b \in 1..Len(features) :
          /\ a < b
          /\ features[a] = MediumFeature
          /\ features[b] = SimpleFeature
    /\ \E a, b \in 1..Len(candidates) :
          /\ a < b
          /\ candidates[a].complexity = "simple"
          /\ candidates[b].complexity = "medium"
          /\ candidates[a].test_num > candidates[b].test_num
    /\ Len(candidates) >= 3

\* the test numbers of the candidates of a complexity
NumsOf(complexity) ==
    {candidates[k].test_num :
        k \in {j \in 1..Len(candidates) : candidates[j].complexity = complexity}}

\* C6: never more than 10 blocks; at the end of the run the blocks are the
\* first min(10, n) ranked candidates with ranks 1..min(10, n); with 9 simple
\* and 6 medium candidates they are the 9 simple ones and then the medium one
\* with the smallest test number
C6_ReportTopTen ==
    /\ Len(Blocks) <= 10
    /\ pc = "done" =>
          LET n == Len(candidates)
              m == IF n < 10 THEN n ELSE 10
          IN  /\ Len(Blocks) = m
              /\ \A k \in 1..m :
                    /\ Blocks[k].block.rank = k
                    /\ Blocks[k].block.test_num = candidates[k].test_num
                    /\ Blocks[k].block.complexity = candidates[k].complexity
                    /\ Blocks[k].block.description = candidates[k].description.s
                    /\ Blocks[k].block.category = candidates[k].category
              /\ (Cardinality(NumsOf("simple")) = 9 /\ Cardinality(NumsOf("medium")) = 6)
                    => /\ {Blocks[k].block.test_num : k \in 1..9} = NumsOf("simple")
                       /\ \A k \in 1..8 :
                             Blocks[k].block.test_num < Blocks[k + 1].block.test_num
                       /\ Blocks[10].block.test_num \in NumsOf("medium")
                       /\ \A x \in NumsOf("medium") : Blocks[10].block.test_num <= x

C6_Witness ==
    /\ pc = "done"
    /\ Cardinality(NumsOf("simple")) = 9
    /\ Cardinality(NumsOf("medium")) = 6
    /\ features[1] = MediumFeature
    /\ Len(Blocks) = 10

\* C7: a run that ends with an error has written no output
C7_NoOutputBeforeFailure == pc = "error" => out = <<>>

\* C8: the description of a candidate holds neither "database" nor
\* "postgresql" in any letter case, and no decided record whose description
\* does is a candidate
C8_NoDatabase ==
    /\ \A k \in 1..Len(candidates) :
          /\ candidates[k].description.kind = "str"
          /\ candidates[k].description.s
                = features[candidates[k].test_num].description.s
          /\ ~MentionsDatabase(candidates[k].description.s)
    /\ \A k \in 1..Len(features) :
          (Decided(k) /\ MentionsDatabase(features[k].description.s))
             => k \notin CandidateNums

C8_Witness ==
    /\ pc = "done"
    /\ \E k \in 1..Len(features) :
          /\ features[k].description = DescPostgresUI
          /\ features[k].passes = "False"
          /\ features[k].complexity = "simple"
          /\ features[k].dependencies = NoDependencies
          /\ k \notin CandidateNums
    /\ candidates # <<>>

\* C9: the complexity of a candidate is exactly "simple" or "medium", and no
\* decided record with another complexity (absent and empty included) is a
\* candidate
C9_BoundedComplexity ==
    /\ \A k \in 1..Len(candidates) :
          /\ candidates[k].complexity \in {"simple", "medium"}
          /\ candidates[k].complexity = features[candidates[k].test_num].complexity
    /\ \A k \in 1..Len(features) :
          (Decided(k) /\ features[k].complexity \notin {"simple", "medium"})
             => k \notin CandidateNums

C9_Witness ==
    /\ pc = "done"
    /\ \E k \in 1..Len(features) :
          /\ features[k].complexity \in {"absent", ""}
          /\ features[k].passes = "False"
          /\ features[k].description = DescUI
          /\ features[k].dependencies = List(<<>>)
          /\ k \notin CandidateNums
    /\ candidates # <<>>

\* C10: the PassingSet is complete before the first eligibility decision and
\* only the first loop changes it, so that a record that is eligible but for
\* its dependencies, all of them passing records (of a higher test number
\* too), becomes a candidate
C10_PassingSetFixed ==
    /\ [](pc \in {"filter", "report", "done"} => passing_tests = PassingIds)
    /\ [][passing_tests' # passing_tests => (pc = "pass1" /\ pc' = "pass1")]_vars
    /\ [][(pc = "filter" /\ (i' # i \/ candidates' # candidates))
             => (passing_tests = PassingIds /\ passing_tests' = passing_tests)]_vars
    /\ [](\A k \in 1..Len(features) :
             (/\ Decided(k)
              /\ features[k].passes = "False"
              /\ features[k].description = DescUI
              /\ features[k].complexity \in {"simple", "medium"}
              /\ features[k].dependencies.kind = "list"
              /\ \A d \in 1..Len(features[k].dependencies.l) :
                    features[k].dependencies.l[d] \in PassingIds)
             => k \in CandidateNums)

C10_Witness ==
    /\ pc = "done"
    /\ \E k \in 1..Len(candidates) :
          \E d \in 1..Len(candidates[k].dependencies.l) :
             candidates[k].dependencies.l[d] > candidates[k].test_num

====
